---- MODULE Spec2Model ----
(***************************************************************************)
(* WikiTok: a vertically swipeable feed of Wikipedia pages.                *)
(*                                                                         *)
(* Three parts of the program are modelled, each with its own              *)
(* specification over the shared variables:                                *)
(*   SpecLikes  src/lib/storage.js and the like handling of WikiCard,      *)
(*              ActionButtons and LikedPagesSidebar;                       *)
(*   SpecCache  the module-level imageCache and WikiCard.loadImages;       *)
(*   Spec       the Home page: page loading, retry, language change and    *)
(*              the drag gesture.                                          *)
(* JavaScript runs one handler at a time, and React commits the state      *)
(* updates a handler queued and runs the effects whose dependencies        *)
(* changed before the next handler runs: an action is a handler together   *)
(* with the commit and the effects that follow it.                         *)
(***************************************************************************)
EXTENDS Integers, Sequences, FiniteSets, Bags, TLC

VARIABLES
    \* ---- persisted store and like bus
    localStorage,   \* key -> item
    cards,          \* WikiCard instance -> [mounted, pageid, liked]
    listeners,      \* the WikiCards whose likeStatusChanged listener is registered
    seen,           \* per WikiCard: the events its listener handled, in order
    sidebar,        \* LikedPagesSidebar: [isOpen, likedPagesData]
    toggles,        \* per page id: togglePageLike calls since origLiked was taken
    origLiked,      \* per page id: membership when the count in toggles started
    \* ---- image cache
    imageCache,     \* cacheKey -> entry
    cardImg,        \* per WikiCard: [mounted, pageid, isActive, preload, images, loading, imagesFetched]
    flights,        \* loadImages calls awaiting extractImages, in call order
    \* ---- Home
    mounted, wikiPages, currentIndex, loading, language, loadError,
    isDragging, startY, dragOffset,
    requests,       \* bag of the fetchRandomWikiPages calls awaited by loadWikiPages
    timers,         \* retry timers set by loadWikiPages and not yet fired
    \* ---- the last handler that ran and its inputs
    lastOp

likeVars  == <<localStorage, cards, listeners, seen, sidebar, toggles, origLiked>>
cacheVars == <<imageCache, cardImg, flights>>
homeVars  == <<mounted, wikiPages, currentIndex, loading, language, loadError,
               isDragging, startY, dragOffset, requests, timers>>
vars      == <<likeVars, cacheVars, homeVars, lastOp>>

(***************************************************************************)
(* Bounds of the model                                                     *)
(***************************************************************************)
NumCards == 2
MaxEvents == 2
MaxToggles == 2

\* The page ids of the pages shown: one of one digit and one of two.
PageIds == {7, 42}
CardIds == 1..NumCards

Min(a, b) == IF a < b THEN a ELSE b
Abs(x) == IF x < 0 THEN -x ELSE x
RemoveAt(s, i) == SubSeq(s, 1, i - 1) \o SubSeq(s, i + 1, Len(s))

(***************************************************************************)
(* src/lib/storage.js                                                      *)
(***************************************************************************)
\* The key the read and write paths use, and the key of the declared constant.
LikesKey == "wikiTokLikes"
LIKES_STORAGE_KEY == "wikitok_liked_pages"
StorageKeys == {LikesKey, LIKES_STORAGE_KEY}

\* Number.prototype.toString: the decimal digits of a page id.
Digits == <<"0", "1", "2", "3", "4", "5", "6", "7", "8", "9">>
RECURSIVE toString(_)
toString(n) ==
    IF n < 10 THEN Digits[n + 1] ELSE toString(n \div 10) \o Digits[(n % 10) + 1]

\* A localStorage item: absent (getItem gives null) or a JSON text, kept as
\* the array it encodes.
NoItem == [present |-> FALSE, text |-> <<>>]
JSONstringify(arr) == [present |-> TRUE, text |-> arr]
JSONparse(item) == item.text

Includes(arr, x) == \E i \in 1..Len(arr) : arr[i] = x
FilterOut(arr, x) == SelectSeq(arr, LAMBDA e : e # x)

\* getAllLikes: JSON.parse(localStorage.getItem('wikiTokLikes') || '[]')
GetAllLikes(ls) ==
    IF ls[LikesKey].present THEN JSONparse(ls[LikesKey]) ELSE <<>>

IsPageLiked(ls, pageId) == Includes(GetAllLikes(ls), toString(pageId))

\* The list togglePageLike writes back.
NewLikesNoToString(ls, pageId) ==
    \* the bug of comparing with the number: never found, always appended
    Append(GetAllLikes(ls), toString(pageId))
NewLikes(ls, pageId) ==
    IF Includes(GetAllLikes(ls), toString(pageId))
    THEN FilterOut(GetAllLikes(ls), toString(pageId))
    ELSE Append(GetAllLikes(ls), toString(pageId))

\* togglePageLike(pageId): the store after setItem, the event dispatched, the
\* store the listeners read while they handle it, and the value returned.
TogglePageLikeDispatchFirst(ls, pageId) ==
    LET isLiked == Includes(GetAllLikes(ls), toString(pageId))
        after == [ls EXCEPT ![LikesKey] = JSONstringify(NewLikes(ls, pageId))]
    IN  [store |-> after,
         events |-> << [pageId |-> pageId, liked |-> ~isLiked] >>,
         atDispatch |-> ls,
         ret |-> ~isLiked]
TogglePageLikeNoDispatch(ls, pageId) ==
    LET isLiked == Includes(GetAllLikes(ls), toString(pageId))
        after == [ls EXCEPT ![LikesKey] = JSONstringify(NewLikes(ls, pageId))]
    IN  [store |-> after,
         events |-> << >>,
         atDispatch |-> after,
         ret |-> ~isLiked]
TogglePageLike(ls, pageId) ==
    LET isLiked == Includes(GetAllLikes(ls), toString(pageId))
        after == [ls EXCEPT ![LikesKey] = JSONstringify(NewLikes(ls, pageId))]
    IN  [store |-> after,
         events |-> << [pageId |-> pageId, liked |-> ~isLiked] >>,
         atDispatch |-> after,
         ret |-> ~isLiked]

\* Which localStorage calls raise: none, the reads (getItem or JSON.parse of
\* a damaged item), the writes (setItem: quota, storage denied), or both.
Faults == {"none", "read", "write", "both"}
ReadFails(fault) == fault \in {"read", "both"}
WriteFails(fault) == fault \in {"write", "both"}

\* getAllLikes with its try/catch: a read that raises gives [].
GetAllLikesUnder(ls, fault) == IF ReadFails(fault) THEN << >> ELSE GetAllLikes(ls)

\* isPageLiked when the storage calls of fault raise.
IsPageLikedUnder(ls, pageId, fault) ==
    Includes(GetAllLikesUnder(ls, fault), toString(pageId))

\* togglePageLike when the storage calls of fault raise: setItem is called
\* outside any try/catch, so its exception leaves the function (threw) before
\* the dispatch and the return.
TogglePageLikeUnder(ls, pageId, fault) ==
    LET likes == GetAllLikesUnder(ls, fault)
        pageIdStr == toString(pageId)
        isLiked == Includes(likes, pageIdStr)
        newLikes == IF isLiked THEN FilterOut(likes, pageIdStr)
                    ELSE Append(likes, pageIdStr)
        after == [ls EXCEPT ![LikesKey] = JSONstringify(newLikes)]
    IN  IF WriteFails(fault)
        THEN [threw |-> TRUE, store |-> ls, events |-> << >>, atDispatch |-> ls,
              ret |-> FALSE]
        ELSE [threw |-> FALSE, store |-> after,
              events |-> << [pageId |-> pageId, liked |-> ~isLiked] >>,
              atDispatch |-> after,
              ret |-> ~isLiked]

\* A removeLike that writes an empty list.
RemoveLikeClearing(ls, pageId) ==
    LET after == [ls EXCEPT ![LikesKey] = JSONstringify(<< >>)]
    IN  [store |-> after,
         events |-> << [pageId |-> pageId, liked |-> FALSE] >>,
         atDispatch |-> after]

\* removeLike(pageId): filter, setItem, dispatch {pageId, liked: false}.
RemoveLike(ls, pageId) ==
    LET after == [ls EXCEPT ![LikesKey] =
                     JSONstringify(FilterOut(GetAllLikes(ls), toString(pageId)))]
    IN  [store |-> after,
         events |-> << [pageId |-> pageId, liked |-> FALSE] >>,
         atDispatch |-> after]

\* clearAllLikes: localStorage.removeItem(LIKES_STORAGE_KEY)
ClearAllLikesStore(ls) == [ls EXCEPT ![LIKES_STORAGE_KEY] = NoItem]

(***************************************************************************)
(* WikiCard, ActionButtons, LikedPagesSidebar: the like handling           *)
(***************************************************************************)
NoCard == [mounted |-> FALSE, pageid |-> 0, liked |-> FALSE]

\* A listener that leaves the card as it is.
HandleLikeStatusChangedIgnored(card, ls, ev) == card

\* WikiCard's handleLikeStatusChanged, run by window.dispatchEvent.
HandleLikeStatusChanged(card, ls, ev) ==
    IF card.mounted /\ ev.pageId = card.pageid
    THEN [card EXCEPT !.liked = IsPageLiked(ls, card.pageid)]
    ELSE card

\* What a listener saw of one event: its detail and the membership the store
\* held while the listener ran.
Observed(ls, ev) ==
    [pageId |-> ev.pageId, liked |-> ev.liked, stored |-> IsPageLiked(ls, ev.pageId)]

RECURSIVE DispatchAll(_, _, _)
\* window.dispatchEvent for each event of evs in turn: every registered
\* listener handles it once.  st = [cards, seen].
DispatchAll(st, ls, evs) ==
    IF evs = << >> THEN st
    ELSE LET ev == Head(evs)
             next == [cards |-> [c \in CardIds |->
                                   IF c \in listeners
                                   THEN HandleLikeStatusChanged(st.cards[c], ls, ev)
                                   ELSE st.cards[c]],
                      seen |-> [c \in CardIds |->
                                   IF c \in listeners
                                   THEN Append(st.seen[c], Observed(ls, ev))
                                   ELSE st.seen[c]]]
         IN  DispatchAll(next, ls, Tail(evs))

EventRoom(n) == \A c \in listeners : Len(seen[c]) + n <= MaxEvents

\* A WikiCard mounts for page p: the effect on [page] reads isPageLiked and the
\* listener effect registers handleLikeStatusChanged.
MountCard(c, p) ==
    /\ ~cards[c].mounted
    /\ cards' = [cards EXCEPT ![c] =
                    [mounted |-> TRUE, pageid |-> p, liked |-> IsPageLiked(localStorage, p)]]
    /\ listeners' = listeners \cup {c}
    /\ seen' = [seen EXCEPT ![c] = << >>]
    /\ lastOp' = [op |-> "mountCard"]
    /\ UNCHANGED <<localStorage, sidebar, toggles, origLiked, cacheVars, homeVars>>

\* The WikiCard unmounts: the effect's cleanup removes the listener.
UnmountCard(c) ==
    /\ cards[c].mounted
    /\ cards' = [cards EXCEPT ![c] = NoCard]
    /\ listeners' = listeners \ {c}
    /\ seen' = [seen EXCEPT ![c] = << >>]
    /\ lastOp' = [op |-> "unmountCard"]
    /\ UNCHANGED <<localStorage, sidebar, toggles, origLiked, cacheVars, homeVars>>

\* The caller's part after togglePageLike returned: setLiked(newLikedStatus).
ToggleFrom(c, opname) ==
    LET p == cards[c].pageid
        t == TogglePageLike(localStorage, p)
        d == DispatchAll([cards |-> cards, seen |-> seen], t.atDispatch, t.events)
    IN  /\ cards[c].mounted
        /\ EventRoom(1)
        /\ toggles[p] < MaxToggles
        /\ localStorage' = t.store
        /\ cards' = [d.cards EXCEPT ![c].liked = t.ret]
        /\ seen' = d.seen
        /\ toggles' = [toggles EXCEPT ![p] = @ + 1]
        /\ lastOp' = [op |-> opname, pageId |-> p, ret |-> t.ret]
        /\ UNCHANGED <<listeners, sidebar, origLiked, cacheVars, homeVars>>

\* A WikiCard mounts for page p while the storage calls of fault raise.
MountCardUnder(c, p, fault) ==
    /\ ~cards[c].mounted
    /\ cards' = [cards EXCEPT ![c] =
                    [mounted |-> TRUE, pageid |-> p,
                     liked |-> IsPageLikedUnder(localStorage, p, fault)]]
    /\ listeners' = listeners \cup {c}
    /\ seen' = [seen EXCEPT ![c] = << >>]
    /\ lastOp' = [op |-> "mountCard", pageId |-> p, fault |-> fault,
                  ret |-> IsPageLikedUnder(localStorage, p, fault)]
    /\ UNCHANGED <<localStorage, sidebar, toggles, origLiked, cacheVars, homeVars>>

\* handleDoubleTap / handleLike while the storage calls of fault raise in
\* togglePageLike: when it throws, the handler ends there, before setLiked.
ToggleFromUnder(c, opname, fault) ==
    LET p == cards[c].pageid
        t == TogglePageLikeUnder(localStorage, p, fault)
        d == DispatchAll([cards |-> cards, seen |-> seen], t.atDispatch, t.events)
    IN  /\ cards[c].mounted
        /\ EventRoom(1)
        /\ toggles[p] < MaxToggles
        /\ localStorage' = t.store
        /\ cards' = IF t.threw THEN cards ELSE [d.cards EXCEPT ![c].liked = t.ret]
        /\ seen' = d.seen
        /\ toggles' = IF t.threw THEN toggles ELSE [toggles EXCEPT ![p] = @ + 1]
        /\ lastOp' = [op |-> opname, pageId |-> p, fault |-> fault,
                      threw |-> t.threw, ret |-> t.ret]
        /\ UNCHANGED <<listeners, sidebar, origLiked, cacheVars, homeVars>>

\* WikiCard.handleDoubleTap
HandleDoubleTap(c) == ToggleFrom(c, "handleDoubleTap")

\* ActionButtons.handleLike, whose onLikeChange is the card's setLiked
HandleLike(c) == ToggleFrom(c, "handleLike")

NumberOf(str) == CHOOSE p \in PageIds : toString(p) = str

\* The sidebar opens: its effect reads getAllLikes and, when there are ids,
\* loads the pages' data.
OpenSidebar ==
    LET ids == GetAllLikes(localStorage)
    IN  /\ ~sidebar.isOpen
        /\ sidebar' = [isOpen |-> TRUE,
                       likedPagesData |-> IF Len(ids) > 0
                                          THEN [i \in 1..Len(ids) |-> NumberOf(ids[i])]
                                          ELSE sidebar.likedPagesData]
        /\ lastOp' = [op |-> "openSidebar"]
        /\ UNCHANGED <<localStorage, cards, listeners, seen, toggles, origLiked,
                       cacheVars, homeVars>>

CloseSidebar ==
    /\ sidebar.isOpen
    /\ sidebar' = [sidebar EXCEPT !.isOpen = FALSE]
    /\ lastOp' = [op |-> "closeSidebar"]
    /\ UNCHANGED <<localStorage, cards, listeners, seen, toggles, origLiked,
                   cacheVars, homeVars>>

\* LikedPagesSidebar.handleRemoveLike(pageId): removeLike, a second
\* dispatchEvent of its own, then the panel's lists are filtered.
HandleRemoveLike(p) ==
    LET r == RemoveLike(localStorage, p)
        evs == r.events \o << [pageId |-> p, liked |-> FALSE] >>
        d == DispatchAll([cards |-> cards, seen |-> seen], r.atDispatch, evs)
    IN  /\ sidebar.isOpen
        /\ Includes(sidebar.likedPagesData, p)
        /\ EventRoom(2)
        /\ localStorage' = r.store
        /\ cards' = d.cards
        /\ seen' = d.seen
        /\ sidebar' = [sidebar EXCEPT !.likedPagesData = FilterOut(@, p)]
        /\ toggles' = [toggles EXCEPT ![p] = 0]
        /\ origLiked' = [origLiked EXCEPT ![p] = FALSE]
        /\ lastOp' = [op |-> "handleRemoveLike", pageId |-> p]
        /\ UNCHANGED <<listeners, cacheVars, homeVars>>

\* clearAllLikes()
ClearAllLikes ==
    /\ localStorage' = ClearAllLikesStore(localStorage)
    /\ lastOp' = [op |-> "clearAllLikes"]
    /\ UNCHANGED <<cards, listeners, seen, sidebar, toggles, origLiked,
                   cacheVars, homeVars>>


(***************************************************************************)
(* lib/wikiapi: extractImages and getThumbnailImages                       *)
(***************************************************************************)
MaxCandidates == 2
MaxFlights == 2

\* An image URL: the file served and the "/<n>px-" segment of its path
\* (px = 0: the path has none).
Url(host, file, px) == [host |-> host, file |-> file, px |-> px]

\* The page objects of the summary endpoint: an odd page id stands for a page
\* with a thumbnail, an even one for a page without.
Page(p) ==
    [pageid |-> p,
     title |-> toString(p),
     thumbnail |-> IF p % 2 = 1
                   THEN [present |-> TRUE, source |-> Url("upload", toString(p), 320)]
                   ELSE [present |-> FALSE, source |-> Url("", "", 0)]]

\* The imageinfo records the API can answer with.
Candidates ==
    { [name |-> "a.jpg", width |-> 1200, height |-> 800],
      [name |-> "b.png", width |-> 400,  height |-> 300],
      [name |-> "c.jpg", width |-> 300,  height |-> 5000] }

RECURSIVE NoDupLists(_, _)
\* The lists without repetition over S of length at most n.
NoDupLists(S, n) ==
    IF S = {} \/ n = 0 THEN {<< >>}
    ELSE {<< >>} \cup UNION {{<<x>> \o l : l \in NoDupLists(S \ {x}, n - 1)} : x \in S}

RECURSIVE SeqsUpTo(_, _)
SeqsUpTo(S, n) ==
    IF n = 0 THEN {<< >>}
    ELSE LET shorter == SeqsUpTo(S, n - 1)
         IN  shorter \cup {Append(l, x) : l \in shorter, x \in S}

\* What the two API calls of extractImages end with: an error (caught), or the
\* imageinfo pages (one per file) of the candidates that passed the file-name
\* filters.
ApiAnswers ==
    {[ok |-> FALSE, pages |-> << >>]} \cup
    {[ok |-> TRUE, pages |-> l] : l \in NoDupLists(Candidates, MaxCandidates)}

Area(img) == img.width * img.height

RECURSIVE InsertByArea(_, _)
\* Array.prototype.sort with (a, b) => bSize - aSize is stable: x goes behind
\* every element at least as large.
InsertByArea(sorted, x) ==
    IF sorted = << >> THEN <<x>>
    ELSE IF Area(Head(sorted)) >= Area(x)
         THEN <<Head(sorted)>> \o InsertByArea(Tail(sorted), x)
         ELSE <<x>> \o sorted

RECURSIVE SortByArea(_)
SortByArea(l) ==
    IF l = << >> THEN << >>
    ELSE InsertByArea(SortByArea(SubSeq(l, 1, Len(l) - 1)), l[Len(l)])

\* A slice that keeps the whole array.
SliceAll(l, n) == l

\* Array.prototype.slice(0, n)
Slice(l, n) == SubSeq(l, 1, Min(n, Len(l)))

\* An element of an image list: an {url, alt} object or a bare URL string.
ImageObject(url, alt) == [kind |-> "object", url |-> url, alt |-> alt]
ImageString(url) == [kind |-> "string", url |-> url, alt |-> ""]

\* extractImages without its sort.
ExtractImagesUnsorted(answer) ==
    IF ~answer.ok THEN << >>
    ELSE LET wide == SelectSeq(answer.pages, LAMBDA img : img.width > 300)
             top == Slice(wide, 3)
         IN  [i \in 1..Len(top) |->
                 ImageObject(Url("upload", top[i].name, 1200), top[i].name)]

\* extractImages(pageId): [] on any error, else the images wider than 300,
\* largest area first, at most 3, as {url, alt}.
ExtractImages(answer) ==
    IF ~answer.ok THEN << >>
    ELSE LET wide == SelectSeq(answer.pages, LAMBDA img : img.width > 300)
             top == Slice(SortByArea(wide), 3)
         IN  [i \in 1..Len(top) |->
                 ImageObject(Url("upload", top[i].name, 1200), top[i].name)]

\* The imageinfo pages that pass extractImages' width filter.
WideImages(answer) ==
    IF ~answer.ok THEN << >>
    ELSE SelectSeq(answer.pages, LAMBDA img : img.width > 300)

\* Answers of the API for a page with many image files.
MaxWide == 4
ManyCandidates ==
    Candidates \cup
    { [name |-> "d.jpg", width |-> 800,  height |-> 600],
      [name |-> "e.gif", width |-> 2000, height |-> 1000] }
ManyAnswers ==
    {[ok |-> FALSE, pages |-> << >>]} \cup
    {[ok |-> TRUE, pages |-> l] : l \in NoDupLists(ManyCandidates, MaxWide)}

\* thumbnailUrl.replace(/\/\d+px-/, '/800px-')
HighRes(url) == IF url.px > 0 THEN [url EXCEPT !.px = 800] ELSE url

\* getThumbnailImages(page): the thumbnail in high resolution, else the
\* placeholder for the title; pushed as strings.
GetThumbnailImages(page) ==
    IF page.thumbnail.present
    THEN << ImageString(HighRes(page.thumbnail.source)) >>
    ELSE << ImageString(Url("source.unsplash.com", page.title, 0)) >>

(***************************************************************************)
(* WikiCard: imageCache and loadImages                                     *)
(***************************************************************************)
CacheKey(pageid) == "images_" \o toString(pageid)
CacheKeys == {CacheKey(p) : p \in PageIds}

NoEntry == [has |-> FALSE, images |-> << >>]
Entry(images) == [has |-> TRUE, images |-> images]

NoCardImg ==
    [mounted |-> FALSE, pageid |-> 0, isActive |-> FALSE, preload |-> FALSE,
     images |-> << >>, loading |-> TRUE, imagesFetched |-> FALSE]

\* loadImages up to its await, called by the preload effect of a card whose
\* render had props (isActive, preload) and state imagesFetched:
\* a cache hit ends the call, a miss leaves it awaiting extractImages.
\* st = [card, flights].
LoadImagesStart(c, card, fl) ==
    IF imageCache[CacheKey(card.pageid)].has
    THEN [card |-> [card EXCEPT !.images = imageCache[CacheKey(card.pageid)].images,
                                !.loading = FALSE,
                                !.imagesFetched = TRUE],
          flights |-> fl]
    ELSE [card |-> [card EXCEPT !.loading = TRUE],
          flights |-> Append(fl, [card |-> c, pageid |-> card.pageid])]

\* The preload effect: if (!imagesFetched && (isActive || preload)) loadImages()
PreloadEffect(c, card, fl) ==
    IF ~card.imagesFetched /\ (card.isActive \/ card.preload)
    THEN LoadImagesStart(c, card, fl)
    ELSE [card |-> card, flights |-> fl]

\* Home renders a WikiCard for page p with the props given: a mount, or new
\* props for a mounted card of that page.  The preload effect runs on mount
\* and when isActive or preload changed.
RenderCard(c, p, active, pre) ==
    LET old == cardImg[c]
        card == IF old.mounted
                THEN [old EXCEPT !.isActive = active, !.preload = pre]
                ELSE [NoCardImg EXCEPT !.mounted = TRUE, !.pageid = p,
                                       !.isActive = active, !.preload = pre]
        r == PreloadEffect(c, card, flights)
    IN  /\ old.mounted => (old.pageid = p /\ <<old.isActive, old.preload>> # <<active, pre>>)
        /\ Len(r.flights) <= MaxFlights
        /\ cardImg' = [cardImg EXCEPT ![c] = r.card]
        /\ flights' = r.flights
        /\ lastOp' = [op |-> "renderCard"]
        /\ UNCHANGED <<imageCache, likeVars, homeVars>>

\* The card leaves the render window and unmounts; its loadImages calls go on
\* and their setState calls reach no component.
UnrenderCard(c) ==
    /\ cardImg[c].mounted
    /\ cardImg' = [cardImg EXCEPT ![c] = NoCardImg]
    /\ flights' = [i \in 1..Len(flights) |->
                     IF flights[i].card = c THEN [flights[i] EXCEPT !.card = 0]
                     ELSE flights[i]]
    /\ lastOp' = [op |-> "unrenderCard"]
    /\ UNCHANGED <<imageCache, likeVars, homeVars>>

\* What loadImages stores once extractImages answered.
OptimizedImages(answer, page) ==
    LET fetched == ExtractImages(answer)
    IN  Slice(IF Len(fetched) = 0 THEN GetThumbnailImages(page) ELSE fetched, 3)

\* extractImages of the i-th awaiting loadImages resolves: the rest of
\* loadImages runs (fallback, slice, imageCache.set, setImages, finally).
LoadImagesResume(i, answer) ==
    LET f == flights[i]
        optimized == OptimizedImages(answer, Page(f.pageid))
    IN  /\ i \in 1..Len(flights)
        /\ imageCache' = [imageCache EXCEPT ![CacheKey(f.pageid)] = Entry(optimized)]
        /\ cardImg' = IF f.card = 0 THEN cardImg
                      ELSE [cardImg EXCEPT ![f.card].images = optimized,
                                           ![f.card].loading = FALSE,
                                           ![f.card].imagesFetched = TRUE]
        /\ flights' = RemoveAt(flights, i)
        /\ lastOp' = [op |-> "loadImagesResume", pageId |-> f.pageid, ok |-> answer.ok,
                      empty |-> Len(ExtractImages(answer)) = 0,
                      found |-> Len(WideImages(answer))]
        /\ UNCHANGED <<likeVars, homeVars>>

\* A call of extractImages by itself: the API answers and the function
\* returns its array.
CallExtractImages(answer) ==
    /\ lastOp' = [op |-> "extractImages", answer |-> answer,
                  images |-> ExtractImages(answer)]
    /\ UNCHANGED <<likeVars, cacheVars, homeVars>>

(***************************************************************************)
(* pages/index.js: Home                                                    *)
(***************************************************************************)
MaxBatch == 2
MaxFeed == 5
MaxInFlight == 2
MaxTimers == 1

Count == 5          \* fetchRandomWikiPages(language, 5)
LowWater == 3       \* wikiPages.length - currentIndex < 3
Threshold == 15     \* finishSwipe: const threshold = 15
InnerHeight == 20   \* window.innerHeight
Languages == {"en", "es"}
\* clientY of the pointer when a drag starts and while it moves
StartYs == {4}
MoveYs == {0, 1, 7, 8}

NoError == "null"
NoImagesError == "Failed to load new pages with images"

\* The pages the random-summary endpoint answers with.
FeedPages == {Page(p) : p \in PageIds}

\* fetchRandomWikiPages(language, count) never throws: it resolves with the
\* pages fetched before a request failed, at most count of them.
FetchRandomWikiPages(count) == SeqsUpTo(FeedPages, Min(count, MaxBatch))

HomeState ==
    [wikiPages |-> wikiPages, currentIndex |-> currentIndex, loading |-> loading,
     language |-> language, loadError |-> loadError, isDragging |-> isDragging,
     startY |-> startY, dragOffset |-> dragOffset, requests |-> requests,
     timers |-> timers]

InitialHome ==
    [wikiPages |-> << >>, currentIndex |-> 0, loading |-> FALSE, language |-> "en",
     loadError |-> NoError, isDragging |-> FALSE, startY |-> 0, dragOffset |-> 0,
     requests |-> EmptyBag, timers |-> << >>]

SetHome(h) ==
    /\ wikiPages' = h.wikiPages
    /\ currentIndex' = h.currentIndex
    /\ loading' = h.loading
    /\ language' = h.language
    /\ loadError' = h.loadError
    /\ isDragging' = h.isDragging
    /\ startY' = h.startY
    /\ dragOffset' = h.dragOffset
    /\ requests' = h.requests
    /\ timers' = h.timers

WithinBounds(h) ==
    /\ Len(h.wikiPages) <= MaxFeed
    /\ BagCardinality(h.requests) <= MaxInFlight
    /\ Len(h.timers) <= MaxTimers

\* loadWikiPages() up to its await, called through a closure that captured
\* loading = loadingC and language = languageC: the guard reads the captured
\* flag, and the request is made for the captured language.
LoadWikiPagesStart(h, loadingC, languageC, isRetry) ==
    IF loadingC THEN h
    ELSE [h EXCEPT !.loading = TRUE,
                   !.loadError = NoError,
                   !.requests = @ (+) SetToBag({[language |-> languageC, retry |-> isRetry]})]

\* The effects of a commit without the low-water effect.
RunEffectsNoLowWater(prev, h, isMount) ==
    LET initRuns == isMount \/ <<h.loading, h.language, Len(h.wikiPages)>> #
                               <<prev.loading, prev.language, Len(prev.wikiPages)>>
    IN  IF initRuns /\ Len(h.wikiPages) = 0
        THEN LoadWikiPagesStart(h, h.loading, h.language, FALSE)
        ELSE h

\* The effects of the commit that rendered h after the render prev.
\* Low-water effect, deps [currentIndex, wikiPages.length]; initial-load
\* effect, deps [loadWikiPages, wikiPages.length], where loadWikiPages is a
\* useCallback on [loading, language].  Both read the state of their render.
RunEffects(prev, h, isMount) ==
    LET lowRuns == isMount \/ <<h.currentIndex, Len(h.wikiPages)>> #
                              <<prev.currentIndex, Len(prev.wikiPages)>>
        initRuns == isMount \/ <<h.loading, h.language, Len(h.wikiPages)>> #
                               <<prev.loading, prev.language, Len(prev.wikiPages)>>
        h1 == IF lowRuns /\ Len(h.wikiPages) - h.currentIndex < LowWater /\ ~h.loading
              THEN LoadWikiPagesStart(h, h.loading, h.language, FALSE)
              ELSE h
    IN  IF initRuns /\ Len(h.wikiPages) = 0
        THEN LoadWikiPagesStart(h1, h.loading, h.language, FALSE)
        ELSE h1

RECURSIVE Commit(_, _, _)
\* React renders the updated state, runs the effects, and renders again while
\* an effect changed the state.
Commit(prev, h, isMount) ==
    LET after == RunEffects(prev, h, isMount)
    IN  IF after = h THEN h ELSE Commit(h, after, FALSE)

HomeStep(h, op) ==
    LET c == Commit(HomeState, h, FALSE)
    IN  /\ mounted
        /\ WithinBounds(c)
        /\ SetHome(c)
        /\ UNCHANGED mounted
        /\ lastOp' = op
        /\ UNCHANGED <<likeVars, cacheVars>>

\* Home mounts: the first render and its effects.
MountHome ==
    LET c == Commit(InitialHome, InitialHome, TRUE)
    IN  /\ ~mounted
        /\ WithinBounds(c)
        /\ mounted' = TRUE
        /\ SetHome(c)
        /\ lastOp' = [op |-> "mountHome"]
        /\ UNCHANGED <<likeVars, cacheVars>>

\* handleLanguageChange, registered once by an effect with no deps: its
\* loadWikiPages is the one of the first render (loading false, language en).
HandleLanguageChange(lang) ==
    LET reset == [HomeState EXCEPT !.language = lang, !.wikiPages = << >>,
                                   !.currentIndex = 0]
    IN  HomeStep(LoadWikiPagesStart(reset, InitialHome.loading, InitialHome.language, FALSE),
                 [op |-> "handleLanguageChange"])

\* loadWikiPages whose catch block also drops the pages loaded so far.
LoadWikiPagesRestClearing(h, req, newPages) ==
    LET pagesWithImages == SelectSeq(newPages, LAMBDA page : page.thumbnail.present)
    IN  IF Len(pagesWithImages) = 0
        THEN [h EXCEPT !.loadError = NoImagesError,
                       !.timers = Append(@, [language |-> req.language]),
                       !.wikiPages = << >>,
                       !.currentIndex = 0,
                       !.loading = FALSE]
        ELSE [h EXCEPT !.wikiPages = @ \o pagesWithImages,
                       !.loading = FALSE]

\* loadWikiPages whose catch block does not record the error.
LoadWikiPagesRestQuiet(h, req, newPages) ==
    LET pagesWithImages == SelectSeq(newPages, LAMBDA page : page.thumbnail.present)
    IN  IF Len(pagesWithImages) = 0
        THEN [h EXCEPT !.timers = Append(@, [language |-> req.language]),
                       !.loading = FALSE]
        ELSE [h EXCEPT !.wikiPages = @ \o pagesWithImages,
                       !.loading = FALSE]

\* loadWikiPages that shows the new pages in place of the pages loaded so far.
LoadWikiPagesRestReplacing(h, req, newPages) ==
    LET pagesWithImages == SelectSeq(newPages, LAMBDA page : page.thumbnail.present)
    IN  IF Len(pagesWithImages) = 0
        THEN [h EXCEPT !.loadError = NoImagesError,
                       !.timers = Append(@, [language |-> req.language]),
                       !.loading = FALSE]
        ELSE [h EXCEPT !.wikiPages = pagesWithImages,
                       !.loading = FALSE]

\* The rest of loadWikiPages once fetchRandomWikiPages resolved with newPages.
LoadWikiPagesRest(h, req, newPages) ==
    LET pagesWithImages == SelectSeq(newPages, LAMBDA page : page.thumbnail.present)
    IN  IF Len(pagesWithImages) = 0
        THEN [h EXCEPT !.loadError = NoImagesError,
                       !.timers = Append(@, [language |-> req.language]),
                       !.loading = FALSE]
        ELSE [h EXCEPT !.wikiPages = @ \o pagesWithImages,
                       !.loading = FALSE]

\* The awaited fetchRandomWikiPages call req resolves with newPages.  The
\* step also records whether req is the call handleLanguageChange has just
\* made while calls made before it are still awaited (newest).
LoadWikiPagesResume(req, newPages) ==
    /\ BagIn(req, requests)
    /\ LET h == [HomeState EXCEPT !.requests = @ (-) SetToBag({req})]
           newest == /\ lastOp.op = "handleLanguageChange"
                     /\ req = [language |-> InitialHome.language, retry |-> FALSE]
                     /\ CopiesIn(req, requests) = 1
                     /\ h.requests # EmptyBag
           failed == \A k \in 1..Len(newPages) : ~newPages[k].thumbnail.present
           rest == LoadWikiPagesRest(h, req, newPages)
       IN  HomeStep(rest,
                    [op |-> "loadWikiPagesResume", failed |-> failed, retry |-> req.retry,
                     shown |-> rest.loadError, newest |-> newest])

\* A request of the awaited fetchRandomWikiPages call req fails with
\* 'Network Error': the function waits a second and calls itself with the
\* same count, so the call stays awaited and Home's state is as it was.
FetchRetriesOnNetworkError(req) ==
    /\ mounted
    /\ BagIn(req, requests)
    /\ lastOp' = [op |-> "networkError"]
    /\ UNCHANGED <<likeVars, cacheVars, homeVars>>

\* The retry timer fires: setLoading(false); loadWikiPages() of the closure
\* that made the failed call.
RetryTimerFires(j) ==
    /\ j \in 1..Len(timers)
    /\ LET h == [HomeState EXCEPT !.timers = RemoveAt(@, j), !.loading = FALSE]
       IN  HomeStep(LoadWikiPagesStart(h, FALSE, timers[j].language, TRUE),
                    [op |-> "retryTimerFires"])

Offset(start, y) == ((start - y) * 100) \div InnerHeight

HandleTouchStart(y) ==
    HomeStep([HomeState EXCEPT !.isDragging = TRUE, !.startY = y],
             [op |-> "dragStart"])

HandleMouseDown(y) ==
    HomeStep([HomeState EXCEPT !.isDragging = TRUE, !.startY = y],
             [op |-> "dragStart"])

\* handleTouchMove and handleGlobalMouseMove
\* A move handler without the isDragging guard.
DragMoveAlways(h, y) == [h EXCEPT !.dragOffset = Offset(h.startY, y)]

DragMove(h, y) ==
    IF ~h.isDragging THEN h ELSE [h EXCEPT !.dragOffset = Offset(h.startY, y)]

HandleTouchMove(y) == HomeStep(DragMove(HomeState, y), [op |-> "dragMove"])

HandleGlobalMouseMove(y) ==
    HomeStep(DragMove(HomeState, y), [op |-> "dragMove"])

\* finishSwipe that changes pages from the threshold on.
FinishSwipeAtThreshold(h) ==
    IF ~h.isDragging THEN h
    ELSE LET moved ==
               IF Abs(h.dragOffset) >= Threshold
               THEN IF h.dragOffset > 0
                    THEN IF h.currentIndex < Len(h.wikiPages) - 1
                         THEN [h EXCEPT !.currentIndex = @ + 1]
                         ELSE LoadWikiPagesStart(h, h.loading, h.language, FALSE)
                    ELSE IF h.currentIndex > 0
                         THEN [h EXCEPT !.currentIndex = @ - 1]
                         ELSE h
               ELSE h
         IN  [moved EXCEPT !.dragOffset = 0, !.isDragging = FALSE]

\* finishSwipe with the two directions exchanged.
FinishSwipeInverted(h) ==
    IF ~h.isDragging THEN h
    ELSE LET moved ==
               IF Abs(h.dragOffset) > Threshold
               THEN IF h.dragOffset < 0
                    THEN IF h.currentIndex < Len(h.wikiPages) - 1
                         THEN [h EXCEPT !.currentIndex = @ + 1]
                         ELSE LoadWikiPagesStart(h, h.loading, h.language, FALSE)
                    ELSE IF h.currentIndex > 0
                         THEN [h EXCEPT !.currentIndex = @ - 1]
                         ELSE h
               ELSE h
         IN  [moved EXCEPT !.dragOffset = 0, !.isDragging = FALSE]

\* finishSwipe that advances without looking at the length of the feed.
FinishSwipeUnclamped(h) ==
    IF ~h.isDragging THEN h
    ELSE LET moved ==
               IF Abs(h.dragOffset) > Threshold
               THEN IF h.dragOffset > 0
                    THEN IF h.currentIndex < Len(h.wikiPages)
                         THEN [h EXCEPT !.currentIndex = @ + 1]
                         ELSE LoadWikiPagesStart(h, h.loading, h.language, FALSE)
                    ELSE IF h.currentIndex > 0
                         THEN [h EXCEPT !.currentIndex = @ - 1]
                         ELSE h
               ELSE h
         IN  [moved EXCEPT !.dragOffset = 0, !.isDragging = FALSE]

\* finishSwipe that leaves dragOffset as the drag left it.
FinishSwipeKeepOffset(h) ==
    IF ~h.isDragging THEN h
    ELSE LET moved ==
               IF Abs(h.dragOffset) > Threshold
               THEN IF h.dragOffset > 0
                    THEN IF h.currentIndex < Len(h.wikiPages) - 1
                         THEN [h EXCEPT !.currentIndex = @ + 1]
                         ELSE LoadWikiPagesStart(h, h.loading, h.language, FALSE)
                    ELSE IF h.currentIndex > 0
                         THEN [h EXCEPT !.currentIndex = @ - 1]
                         ELSE h
               ELSE h
         IN  [moved EXCEPT !.isDragging = FALSE]

\* finishSwipe that does nothing at the end of the feed.
FinishSwipeNoLoadAtEnd(h) ==
    IF ~h.isDragging THEN h
    ELSE LET moved ==
               IF Abs(h.dragOffset) > Threshold
               THEN IF h.dragOffset > 0
                    THEN IF h.currentIndex < Len(h.wikiPages) - 1
                         THEN [h EXCEPT !.currentIndex = @ + 1]
                         ELSE h
                    ELSE IF h.currentIndex > 0
                         THEN [h EXCEPT !.currentIndex = @ - 1]
                         ELSE h
               ELSE h
         IN  [moved EXCEPT !.dragOffset = 0, !.isDragging = FALSE]

\* finishSwipe, reading the state of the last render.
FinishSwipe(h) ==
    IF ~h.isDragging THEN h
    ELSE LET moved ==
               IF Abs(h.dragOffset) > Threshold
               THEN IF h.dragOffset > 0
                    THEN IF h.currentIndex < Len(h.wikiPages) - 1
                         THEN [h EXCEPT !.currentIndex = @ + 1]
                         ELSE LoadWikiPagesStart(h, h.loading, h.language, FALSE)
                    ELSE IF h.currentIndex > 0
                         THEN [h EXCEPT !.currentIndex = @ - 1]
                         ELSE h
               ELSE h
         IN  [moved EXCEPT !.dragOffset = 0, !.isDragging = FALSE]

\* onTouchEnd={finishSwipe}
HandleTouchEnd ==
    HomeStep(FinishSwipe(HomeState),
             [op |-> "release", wasDragging |-> isDragging, dragOffset |-> dragOffset,
              from |-> currentIndex, wasLoading |-> loading])

\* handleGlobalMouseUp: if (isDragging) finishSwipe()
HandleGlobalMouseUp ==
    HomeStep(IF isDragging THEN FinishSwipe(HomeState) ELSE HomeState,
             [op |-> "release", wasDragging |-> isDragging,
              dragOffset |-> dragOffset, from |-> currentIndex, wasLoading |-> loading])

(***************************************************************************)
(* Initial states and the specification of the like bus                    *)
(***************************************************************************)
PersistedStores ==
    {[k \in StorageKeys |-> NoItem]} \cup
    {[k \in StorageKeys |-> IF k = LikesKey THEN JSONstringify(l) ELSE NoItem] :
        l \in NoDupLists({toString(p) : p \in PageIds}, Cardinality(PageIds))}

InitLikeVars(ls) ==
    /\ localStorage = ls
    /\ cards = [c \in CardIds |-> NoCard]
    /\ listeners = {}
    /\ seen = [c \in CardIds |-> << >>]
    /\ sidebar = [isOpen |-> FALSE, likedPagesData |-> << >>]
    /\ toggles = [p \in PageIds |-> 0]
    /\ origLiked = [p \in PageIds |-> IsPageLiked(ls, p)]

InitCacheVars ==
    /\ imageCache = [k \in CacheKeys |-> NoEntry]
    /\ cardImg = [c \in CardIds |-> NoCardImg]
    /\ flights = << >>

\* Home before its first render: the useState initial values.
InitHomeVars ==
    /\ mounted = FALSE
    /\ wikiPages = InitialHome.wikiPages
    /\ currentIndex = InitialHome.currentIndex
    /\ loading = InitialHome.loading
    /\ language = InitialHome.language
    /\ loadError = InitialHome.loadError
    /\ isDragging = InitialHome.isDragging
    /\ startY = InitialHome.startY
    /\ dragOffset = InitialHome.dragOffset
    /\ requests = InitialHome.requests
    /\ timers = InitialHome.timers

NoStore == [k \in StorageKeys |-> NoItem]

InitLikes ==
    /\ \E ls \in PersistedStores : InitLikeVars(ls)
    /\ InitCacheVars
    /\ InitHomeVars
    /\ lastOp = [op |-> "init"]

Init ==
    /\ InitLikeVars(NoStore)
    /\ InitCacheVars
    /\ InitHomeVars
    /\ lastOp = [op |-> "init"]

\* The like bus driven from the cards.
NextLikes ==
    \/ \E c \in CardIds, p \in PageIds : MountCard(c, p)
    \/ \E c \in CardIds : UnmountCard(c)
    \/ \E c \in CardIds : HandleDoubleTap(c)
    \/ \E c \in CardIds : HandleLike(c)

\* The like bus driven from the cards, the liked-pages panel and clearAllLikes.
NextPanel ==
    \/ \E c \in CardIds, p \in PageIds : MountCard(c, p)
    \/ \E c \in CardIds : UnmountCard(c)
    \/ \E c \in CardIds : HandleDoubleTap(c)
    \/ \E c \in CardIds : HandleLike(c)
    \/ OpenSidebar
    \/ CloseSidebar
    \/ \E p \in PageIds : HandleRemoveLike(p)
    \/ ClearAllLikes

NextCache ==
    \/ \E c \in CardIds, p \in PageIds, a \in BOOLEAN, pre \in BOOLEAN : RenderCard(c, p, a, pre)
    \/ \E c \in CardIds : UnrenderCard(c)
    \/ \E i \in 1..MaxFlights, answer \in ApiAnswers : LoadImagesResume(i, answer)

Next ==
    \/ MountHome
    \/ \E lang \in Languages : HandleLanguageChange(lang)
    \/ \E req \in BagToSet(requests), newPages \in FetchRandomWikiPages(Count) :
          LoadWikiPagesResume(req, newPages)
    \/ \E j \in 1..MaxTimers : RetryTimerFires(j)
    \/ \E y \in StartYs : HandleTouchStart(y)
    \/ \E y \in StartYs : HandleMouseDown(y)
    \/ \E y \in MoveYs : HandleTouchMove(y)
    \/ \E y \in MoveYs : HandleGlobalMouseMove(y)
    \/ HandleTouchEnd
    \/ HandleGlobalMouseUp

\* A session: Home loads pages and changes language while the card of one
\* page loads its images.
NextSession ==
    \/ MountHome
    \/ \E lang \in Languages : HandleLanguageChange(lang)
    \/ \E req \in BagToSet(requests), newPages \in FetchRandomWikiPages(Count) :
          LoadWikiPagesResume(req, newPages)
    \/ \E a \in BOOLEAN, pre \in BOOLEAN : RenderCard(1, 7, a, pre)
    \/ UnrenderCard(1)
    \/ \E i \in 1..MaxFlights, answer \in ApiAnswers : LoadImagesResume(i, answer)

\* The like handlers of the cards over a store whose calls may raise.
NextStorage ==
    \/ \E c \in CardIds, p \in PageIds, fault \in Faults : MountCardUnder(c, p, fault)
    \/ \E c \in CardIds : UnmountCard(c)
    \/ \E c \in CardIds, fault \in Faults : ToggleFromUnder(c, "handleDoubleTap", fault)
    \/ \E c \in CardIds, fault \in Faults : ToggleFromUnder(c, "handleLike", fault)

\* Home's render of the feed: wikiPages.map((page, index) => ...), index
\* counting from 0.
Indexes == 0..(Len(wikiPages) - 1)

\* const position = (index - currentIndex) * 100 - dragOffset
Position(index) == (index - currentIndex) * 100 - dragOffset

\* A render that also keeps the card two screens away.
IsVisibleInclusive(index) == Abs(Position(index)) <= 200

\* const isVisible = Math.abs(position) < 200
IsVisible(index) == Abs(Position(index)) < 200

\* const shouldPreload = Math.abs(index - currentIndex) <= 3
ShouldPreload(index) == Abs(index - currentIndex) <= 3

\* isActive={index === currentIndex && !isDragging}
IsActive(index) == index = currentIndex /\ ~isDragging

\* The WikiCards the render returns: isVisible ? <WikiCard .../> : null
Rendered == {index \in Indexes : IsVisible(index)}

\* The props of the WikiCard rendered for an index.
CardProps(index) ==
    [page |-> wikiPages[index + 1], isActive |-> IsActive(index),
     preload |-> ShouldPreload(index)]

\* The card of one page loads its images from a page with many image files.
NextImages ==
    \/ \E a \in BOOLEAN, pre \in BOOLEAN : RenderCard(1, 7, a, pre)
    \/ UnrenderCard(1)
    \/ \E i \in 1..MaxFlights, answer \in ManyAnswers : LoadImagesResume(i, answer)

SpecLikes == InitLikes /\ [][NextLikes]_vars
SpecPanel == InitLikes /\ [][NextPanel]_vars
SpecCache == Init /\ [][NextCache]_vars
SpecStorage == InitLikes /\ [][NextStorage]_vars
\* Home with a network that may fail.
NextNetwork ==
    \/ Next
    \/ \E req \in BagToSet(requests) : FetchRetriesOnNetworkError(req)

\* Every request of an awaited call settles (axios is given a timeout of
\* 10 s), as a resolved call or as a network error, and a timeout that was
\* set fires.
RequestSettles ==
    \/ \E req \in BagToSet(requests), newPages \in FetchRandomWikiPages(Count) :
          LoadWikiPagesResume(req, newPages)
    \/ \E req \in BagToSet(requests) : FetchRetriesOnNetworkError(req)

SpecNetwork ==
    /\ Init /\ [][NextNetwork]_vars
    /\ WF_vars(RequestSettles)
    /\ WF_vars(\E j \in 1..MaxTimers : RetryTimerFires(j))

\* The same with a network whose requests never fail with a network error.
SpecSettled ==
    /\ Init /\ [][Next]_vars
    /\ WF_vars(\E req \in BagToSet(requests), newPages \in FetchRandomWikiPages(Count) :
                  LoadWikiPagesResume(req, newPages))
    /\ WF_vars(\E j \in 1..MaxTimers : RetryTimerFires(j))

\* extractImages called with every answer of the API.
NextExtract == \E answer \in ManyAnswers : CallExtractImages(answer)

SpecExtract == Init /\ [][NextExtract]_vars

\* Home with its retry timer: a timeout that was set fires after its delay.
SpecLive == Init /\ [][Next]_vars /\ WF_vars(\E j \in 1..MaxTimers : RetryTimerFires(j))
SpecImages == Init /\ [][NextImages]_vars
SpecSession == Init /\ [][NextSession]_vars
Spec == Init /\ [][Next]_vars

(***************************************************************************)
(* The like bus: parity, broadcast, order of write, broadcast and return   *)
(***************************************************************************)
ToggleOps == {"handleDoubleTap", "handleLike"}
Last(l) == l[Len(l)]

\* C1: after N togglePageLike(id) calls from a state where id is not liked,
\* with no other operation on id in between, id is liked exactly when N is
\* odd; from either starting state an even number of toggles restores it.
C1_ToggleParity ==
    \A p \in PageIds :
        IsPageLiked(localStorage, p) = (origLiked[p] # (toggles[p] % 2 = 1))

\* Two toggles of page 42 from not liked have run and 42 is not liked again.
C1_Witness ==
    /\ lastOp.op \in ToggleOps
    /\ ~origLiked[42]
    /\ toggles[42] = 2
    /\ ~IsPageLiked(localStorage, 42)

\* C2: a togglePageLike(id) call is observed exactly once by every listener
\* registered at that moment, after what the listener observed before, and
\* by no card that is not registered.
C2_BroadcastOnceInOrder ==
    [][\A p \in PageIds :
          toggles'[p] = toggles[p] + 1 =>
              \A c \in CardIds :
                  IF c \in listeners
                  THEN /\ Len(seen'[c]) = Len(seen[c]) + 1
                       /\ SubSeq(seen'[c], 1, Len(seen[c])) = seen[c]
                       /\ Last(seen'[c]).pageId = p
                       /\ Last(seen'[c]).liked = lastOp'.ret
                  ELSE seen'[c] = seen[c]]_vars

\* Two registered listeners have both observed a like and then the unlike of
\* the same page.
C2_Witness ==
    /\ lastOp.op \in ToggleOps
    /\ Cardinality(listeners) >= 2
    /\ \A c \in listeners :
          /\ Len(seen[c]) = 2
          /\ seen[c][1].pageId = seen[c][2].pageId
          /\ seen[c][1].liked /\ ~seen[c][2].liked

\* The last event for page p a listener observed, as a set (empty: none).
LastSeenFor(c, p) ==
    LET idx == {i \in 1..Len(seen[c]) : seen[c][i].pageId = p}
    IN  IF idx = {} THEN {}
        ELSE {seen[c][CHOOSE i \in idx : \A j \in idx : j <= i]}

\* C3: togglePageLike writes, then broadcasts, then returns: a listener
\* handling the broadcast reads the membership the broadcast announces, the
\* value returned is the value broadcast, and the latest broadcast for an id
\* agrees with the persisted membership of that id.
C3_WriteBroadcastReturn ==
    /\ \A c \in CardIds : \A i \in 1..Len(seen[c]) : seen[c][i].stored = seen[c][i].liked
    /\ lastOp.op \in ToggleOps =>
          /\ \A c \in listeners : seen[c] # << >> /\ Last(seen[c]).liked = lastOp.ret
          /\ lastOp.ret = IsPageLiked(localStorage, lastOp.pageId)
    /\ \A c \in listeners : \A p \in PageIds : \A e \in LastSeenFor(c, p) :
          e.liked = IsPageLiked(localStorage, p)

\* A listener has handled the broadcast of an unlike made by the like button.
C3_Witness ==
    /\ lastOp.op = "handleLike"
    /\ ~lastOp.ret
    /\ \E c \in listeners : seen[c] # << >> /\ ~Last(seen[c]).liked /\ ~Last(seen[c]).stored

(***************************************************************************)
(* The image cache                                                         *)
(***************************************************************************)
FlightsFor(p) == {i \in 1..Len(flights) : flights[i].pageid = p}

\* C4: for every page id at most one extractImages call is in flight at a
\* time, however many loadImages calls for that id overlap.
C4_SingleFlightPerId ==
    \A p \in PageIds : Cardinality(FlightsFor(p)) <= 1

\* C5: once imageCache holds an entry for an id, loadImages for that id
\* starts no remote fetch and the entry is never overwritten or removed.
C5_EntryStoredOnce ==
    [][\A p \in PageIds :
          imageCache[CacheKey(p)].has =>
              /\ imageCache'[CacheKey(p)] = imageCache[CacheKey(p)]
              /\ Cardinality({i \in 1..Len(flights') : flights'[i].pageid = p})
                    <= Cardinality(FlightsFor(p))]_vars

(***************************************************************************)
(* The feed: page loading and gestures                                     *)
(***************************************************************************)

\* C6: page loading is single-flight: two fetchRandomWikiPages calls issued
\* by loadWikiPages are never outstanding together, whatever the trigger.
C6_PageLoadSingleFlight == BagCardinality(requests) <= 1

\* The step is a release event, handled by onTouchEnd or by the global
\* mouseup listener.
ReleaseEvent == lastOp'.op = "release"

\* The step is a release that ends a drag.
Release == isDragging /\ ReleaseEvent

\* C7: a gesture released with |dragOffset| at or below the threshold leaves
\* currentIndex as it was and the release starts no page load.
C7_SnapBack ==
    [][Release /\ Abs(dragOffset) <= Threshold =>
          /\ currentIndex' = currentIndex
          /\ requests' = requests
          /\ loading' = loading
          /\ wikiPages' = wikiPages]_vars

C7_Witness ==
    /\ lastOp.op = "release"
    /\ lastOp.wasDragging
    /\ lastOp.dragOffset = Threshold
    /\ lastOp.from = 1
    /\ currentIndex = 1
    /\ Len(wikiPages) > 2

\* C8: a release above the threshold with a card after the current one moves
\* currentIndex forward by exactly one, a release below minus the threshold
\* with a card before it moves it back by exactly one, and a release event
\* that arrives when no drag is in progress moves nothing.
C8_StepByOne ==
    [][/\ Release /\ dragOffset > Threshold /\ currentIndex < Len(wikiPages) - 1
            => currentIndex' = currentIndex + 1
       /\ Release /\ dragOffset < 0 - Threshold /\ currentIndex > 0
            => currentIndex' = currentIndex - 1
       /\ ~isDragging /\ ReleaseEvent
            => currentIndex' = currentIndex /\ requests' = requests]_vars

C8_Witness ==
    /\ lastOp.op = "release"
    /\ lastOp.wasDragging
    /\ lastOp.dragOffset > Threshold
    /\ lastOp.from = 1
    /\ currentIndex = 2

\* The scenario of C9: five pages, the fourth current, a drag of 20 per cent.
Scenario9 ==
    /\ Release
    /\ Len(wikiPages) = 5
    /\ currentIndex = 3
    /\ dragOffset = 20

\* C9 as stated: the release of the scenario leaves currentIndex = 4 and
\* triggers a page load exactly once.
C9_LoadOnceAtLastIndex ==
    [][Scenario9 => /\ currentIndex' = 4
                    /\ BagCardinality(requests') = BagCardinality(requests) + 1]_vars

\* C9: the release of the scenario leaves currentIndex = 4; the low-water
\* effect of that render then starts one page load when the render's loading
\* flag is false, and none when a load is marked in progress.
C9_LoadOnceUnlessLoading ==
    [][Scenario9 => /\ currentIndex' = 4
                    /\ wikiPages' = wikiPages
                    /\ BagCardinality(requests') = BagCardinality(requests) + (IF loading THEN 0 ELSE 1)
                    /\ loading']_vars

C9_Witness ==
    /\ lastOp.op = "release"
    /\ lastOp.wasDragging
    /\ lastOp.dragOffset = 20
    /\ lastOp.from = 3
    /\ ~lastOp.wasLoading
    /\ Len(wikiPages) = 5
    /\ currentIndex = 4
    /\ loading
    /\ BagCardinality(requests) >= 1

\* The step is the failure of a page fetch: no page with a thumbnail came.
FetchFailed == lastOp'.op = "loadWikiPagesResume" /\ lastOp'.failed

C11_FailureKeepsFeed ==
    [][FetchFailed \/ lastOp'.op = "retryTimerFires" =>
          /\ wikiPages' = wikiPages
          /\ currentIndex' = currentIndex]_vars

\* A retry failed while the second of several loaded pages was current.
C11_Witness ==
    /\ lastOp.op = "loadWikiPagesResume"
    /\ lastOp.failed
    /\ lastOp.retry
    /\ Len(wikiPages) > 1
    /\ currentIndex = 1

\* C12: currentIndex is a natural number that addresses an element of
\* wikiPages, or is 0 when wikiPages is empty.
C12_IndexInRange ==
    /\ currentIndex \in Nat
    /\ Len(wikiPages) = 0 => currentIndex = 0
    /\ Len(wikiPages) > 0 => currentIndex < Len(wikiPages)

\* A release moved the index onto the last page.
C12_Witness ==
    /\ lastOp.op = "release"
    /\ lastOp.wasDragging
    /\ lastOp.from = 1
    /\ currentIndex = 2
    /\ Len(wikiPages) = 3

\* C13: dragOffset is 0 whenever no drag is in progress, so after every
\* release dragOffset is 0 and isDragging is false.
C13_OffsetResetOnRelease ==
    /\ ~isDragging => dragOffset = 0
    /\ lastOp.op = "release" => ~isDragging /\ dragOffset = 0

\* A release of a drag of 20 per cent that was clamped at the last page.
C13_Witness ==
    /\ lastOp.op = "release"
    /\ lastOp.wasDragging
    /\ lastOp.dragOffset = 20
    /\ lastOp.from = Len(wikiPages) - 1
    /\ currentIndex = lastOp.from
    /\ dragOffset = 0
    /\ ~isDragging

\* C14: a release above the threshold on the last loaded page leaves
\* currentIndex unchanged and calls loadWikiPages, which starts a request
\* unless the render's loading flag is set; a release below minus the
\* threshold on the first page changes neither the index nor the loads.
C14_ClampAtEnds ==
    [][/\ Release /\ dragOffset > Threshold /\ Len(wikiPages) > 0
                  /\ currentIndex = Len(wikiPages) - 1
            => /\ currentIndex' = currentIndex
               /\ wikiPages' = wikiPages
               /\ requests' = LoadWikiPagesStart(HomeState, loading, language, FALSE).requests
               /\ loading'
       /\ Release /\ dragOffset < 0 - Threshold /\ currentIndex = 0
            => /\ currentIndex' = 0
               /\ wikiPages' = wikiPages
               /\ requests' = requests
               /\ loading' = loading]_vars

\* A release on the last page started a page load.
C14_Witness ==
    /\ lastOp.op = "release"
    /\ lastOp.wasDragging
    /\ lastOp.dragOffset > Threshold
    /\ Len(wikiPages) > 0
    /\ lastOp.from = Len(wikiPages) - 1
    /\ currentIndex = lastOp.from
    /\ ~lastOp.wasLoading
    /\ loading
    /\ BagCardinality(requests) >= 1

\* C15: wikiPages never holds two items with the same page id.
C15_UniqueIds ==
    \A i, j \in 1..Len(wikiPages) :
        i # j => wikiPages[i].pageid # wikiPages[j].pageid

\* The step is the handling of a languageChange event.
LanguageChanged == lastOp'.op = "handleLanguageChange"

\* C16: the handling of a languageChange event for locale L leaves wikiPages
\* empty and currentIndex 0 and starts a page load whose requests are made
\* for L.
C16_ReloadInNewLocale ==
    [][LanguageChanged =>
          /\ wikiPages' = << >>
          /\ currentIndex' = 0
          /\ BagCardinality(requests') > BagCardinality(requests)
          /\ \A r \in BagToSet(requests' (-) requests) : r.language = language']_vars

\* C17: after the handling of a languageChange event imageCache holds no
\* entry.
C17_CacheInvalidated ==
    [][LanguageChanged => \A k \in CacheKeys : ~imageCache'[k].has]_vars

\* C18: when a read or a write of localStorage raises, isPageLiked returns
\* false, and togglePageLike does not throw, returns false and leaves the
\* stored set as it was.
C18_StorageFailureIsNoOp ==
    [][/\ lastOp'.op = "mountCard" /\ ReadFails(lastOp'.fault)
            => lastOp'.ret = FALSE
       /\ lastOp'.op \in ToggleOps /\ lastOp'.fault # "none"
            => /\ ~lastOp'.threw
               /\ lastOp'.ret = FALSE
               /\ localStorage' = localStorage]_vars

\* C19: every change of the persisted liked set is made by togglePageLike,
\* called from a card's double tap or like button.
C19_OnlyToggleWrites ==
    [][localStorage'[LikesKey] # localStorage[LikesKey] => lastOp'.op \in ToggleOps]_vars

\* C20: the liked flag of every mounted card equals isPageLiked of its page,
\* whichever surface made the last change.
C20_CardsAgreeWithStore ==
    \A c \in CardIds :
        cards[c].mounted => cards[c].liked = IsPageLiked(localStorage, cards[c].pageid)

\* The panel removed a like while two cards showed that page.
C20_Witness ==
    /\ lastOp.op = "handleRemoveLike"
    /\ \A c \in CardIds : cards[c].mounted /\ cards[c].pageid = lastOp.pageId
    /\ \A c \in CardIds : Len(seen[c]) = 2 /\ ~cards[c].liked

(***************************************************************************)
(* The image cache: what is stored                                         *)
(***************************************************************************)

\* The step is the end of a loadImages call whose extractImages gave nothing.
FetchedNothing == lastOp'.op = "loadImagesResume" /\ lastOp'.empty

\* C21: when extractImages returns no image and the page has a thumbnail
\* with URL T, the entry stored for the page is the list [{url: T, alt: ""}].
C21_ThumbnailEntry ==
    [][FetchedNothing /\ Page(lastOp'.pageId).thumbnail.present =>
          imageCache'[CacheKey(lastOp'.pageId)] =
              Entry(<< ImageObject(Page(lastOp'.pageId).thumbnail.source, "") >>)]_vars

\* C23: when the media fetch for an id fails, no entry is stored for the id,
\* so that a later loadImages for it fetches again.
C23_FailureNotCached ==
    [][lastOp'.op = "loadImagesResume" /\ ~lastOp'.ok /\ ~imageCache[CacheKey(lastOp'.pageId)].has
          => ~imageCache'[CacheKey(lastOp'.pageId)].has]_vars

\* C24: every entry of imageCache holds at most 3 images, whatever
\* extractImages found and whatever the fallback gave.
C24_AtMostThree ==
    \A k \in CacheKeys : Len(imageCache[k].images) <= 3

\* An entry stored from an answer with four images wide enough.
C24_Witness ==
    /\ lastOp.op = "loadImagesResume"
    /\ lastOp.found = 4
    /\ Len(imageCache[CacheKey(lastOp.pageId)].images) = 3

\* C22: every item of wikiPages within the look-ahead window
\* (|index - currentIndex| <= 3) whose images are not in imageCache has a
\* WikiCard, the component whose effect issues the fetch of its images.
C22_WindowIsFetched ==
    \A index \in Indexes :
        ShouldPreload(index) /\ ~imageCache[CacheKey(wikiPages[index + 1].pageid)].has
            => index \in Rendered

\* C26: every rendered WikiCard is less than two screens away from the
\* viewport, at most one rendered card is active, an active card is the one
\* at currentIndex and no drag is in progress, and while no drag is in
\* progress the card at currentIndex is rendered and active.
C26_RenderDistance ==
    /\ \A index \in Rendered :
          Abs((index - currentIndex) * 100 - dragOffset) < 200
    /\ Cardinality({index \in Rendered : CardProps(index).isActive}) <= 1
    /\ \A index \in Rendered :
          CardProps(index).isActive => index = currentIndex /\ ~isDragging
    /\ ~isDragging /\ Len(wikiPages) > 0 =>
          currentIndex \in Rendered /\ CardProps(currentIndex).isActive

\* A drag of 20 per cent brings the card two places ahead into the render
\* while the card three places ahead stays out of it, and no card is active.
C26_Witness ==
    /\ isDragging
    /\ dragOffset = 20
    /\ currentIndex + 2 \in Rendered
    /\ currentIndex + 3 \in Indexes \ Rendered
    /\ \A index \in Rendered : ~CardProps(index).isActive

\* C27: after clearAllLikes() has returned, getAllLikes() is empty and
\* isPageLiked(id) is false for every id that was liked before.
C27_ClearEmpties ==
    [][lastOp'.op = "clearAllLikes" =>
          /\ GetAllLikes(localStorage') = << >>
          /\ \A p \in PageIds :
                IsPageLiked(localStorage, p) => ~IsPageLiked(localStorage', p)]_vars

\* The first fetch to resolve after a languageChange is of a retry call: the
\* call the handler made is not a retry, so this one was made before the event.
StaleResumed ==
    /\ lastOp.op = "handleLanguageChange"
    /\ lastOp'.op = "loadWikiPagesResume"
    /\ lastOp'.retry

\* C28: the pages of a fetch that was awaited when a languageChange reset the
\* feed are dropped: its completion leaves wikiPages as the reset left it.
C28_StaleDiscarded ==
    [][StaleResumed => wikiPages' = wikiPages]_vars

\* C29: pages are appended in the order of the loadWikiPages calls: once the
\* pages of the newest call are appended, the next pages appended are not
\* those of a retry call, which was made before it (a retry call is made by
\* the timer only, and no timer fired in between).
C29_CallOrder ==
    [][~ /\ lastOp.op = "loadWikiPagesResume"
         /\ ~lastOp.failed
         /\ lastOp.newest
         /\ lastOp'.op = "loadWikiPagesResume"
         /\ ~lastOp'.failed
         /\ lastOp'.retry
         /\ wikiPages' # wikiPages]_vars

IsPrefix(a, b) == Len(a) <= Len(b) /\ SubSeq(b, 1, Len(a)) = a

\* C30: a step either is the handling of a languageChange event, which
\* empties wikiPages, or leaves the old wikiPages as a prefix of the new one;
\* the drag and release handlers leave wikiPages as it is.
C30_AppendOrReset ==
    [][/\ LanguageChanged => wikiPages' = << >>
       /\ ~LanguageChanged => IsPrefix(wikiPages, wikiPages')
       /\ lastOp'.op \in {"dragStart", "dragMove", "release"} => wikiPages' = wikiPages]_vars

\* A load appended its pages behind pages that were already shown.
C30_Witness ==
    /\ lastOp.op = "loadWikiPagesResume"
    /\ ~lastOp.failed
    /\ Len(wikiPages) > MaxBatch

\* Fewer than LowWater pages are left from currentIndex on and no
\* fetchRandomWikiPages call is awaited.
BelowMark == mounted /\ Len(wikiPages) - currentIndex < LowWater
RunningLow == BelowMark /\ requests = EmptyBag

\* C25: whenever fewer than 3 pages are left and no load is outstanding, a
\* load is on its way: the only such states are those that wait for the
\* retry timer, and from each of them a load is called eventually, with or
\* without a gesture in between.  A load that completes below the mark is
\* followed by another in the same way.
C25_LowWaterTrigger ==
    /\ [](RunningLow => Len(timers) > 0)
    /\ RunningLow ~> (requests # EmptyBag)

\* The only load awaited resolved with too few pages, and the low-water
\* effect of that commit called loadWikiPages again.
C25_Witness ==
    /\ lastOp.op = "loadWikiPagesResume"
    /\ ~lastOp.failed
    /\ BelowMark
    /\ loading
    /\ BagCardinality(requests) = 1

\* The step is the handling of a touchmove or mousemove event.
Moved == lastOp'.op = "dragMove"

\* C31: a move event leaves currentIndex, wikiPages, loading, the awaited
\* calls and the drag's start as they are; during a drag it sets dragOffset to
\* (startY - clientY) / innerHeight, in per cent, positive when the pointer
\* moved up; with no drag in progress it changes nothing.
C31_MoveOnlySetsOffset ==
    [][Moved =>
          /\ currentIndex' = currentIndex
          /\ wikiPages' = wikiPages
          /\ loading' = loading
          /\ requests' = requests
          /\ timers' = timers
          /\ isDragging' = isDragging
          /\ startY' = startY
          /\ isDragging =>
                \E y \in MoveYs :
                    /\ dragOffset' = ((startY - y) * 100) \div InnerHeight
                    /\ dragOffset' > 0 <=> y < startY
          /\ ~isDragging => dragOffset' = dragOffset]_vars

\* A move during a drag at the second page, the pointer 20 per cent below
\* the start of the drag.
C31_Witness ==
    /\ lastOp.op = "dragMove"
    /\ isDragging
    /\ dragOffset = -20
    /\ currentIndex = 1

\* The imageinfo pages of the last call of extractImages, and the page a
\* returned image was made from.
PagesOfCall == {lastOp.answer.pages[k] : k \in 1..Len(lastOp.answer.pages)}
SourceOf(img) == CHOOSE p \in PagesOfCall : p.name = img.alt
ReturnedPages == {SourceOf(lastOp.images[i]) : i \in 1..Len(lastOp.images)}

\* What extractImages returns is made from pages of the answer, each wider
\* than 300, in descending order of width * height, at most 3 of them.
RankedBySize ==
    LET out == lastOp.images
    IN  /\ Len(out) <= 3
        /\ \A i \in 1..Len(out) :
              /\ \E p \in PagesOfCall : p.name = out[i].alt
              /\ SourceOf(out[i]).width > 300
        /\ \A i, j \in 1..Len(out) :
              i < j => Area(SourceOf(out[i])) >= Area(SourceOf(out[j]))

\* C32 as stated: extractImages returns images wider than 300, sorted by
\* descending area, at most 3, and no candidate left out has a larger area
\* than a returned one.
C32_NoLargerLeftOut ==
    lastOp.op = "extractImages" =>
        /\ RankedBySize
        /\ \A p \in PagesOfCall \ ReturnedPages, q \in ReturnedPages :
              Area(p) <= Area(q)

\* C32: extractImages returns images wider than 300, sorted by descending
\* area, at most 3, and no candidate wider than 300 that was left out has a
\* larger area than a returned one.
C32_NoLargerWideLeftOut ==
    lastOp.op = "extractImages" =>
        /\ RankedBySize
        /\ \A p \in PagesOfCall \ ReturnedPages, q \in ReturnedPages :
              p.width > 300 => Area(p) <= Area(q)

\* Three images were returned and a fourth candidate, 300 wide and with the
\* largest area of all, was left out.
C32_Witness ==
    /\ lastOp.op = "extractImages"
    /\ Len(lastOp.images) = 3
    /\ \E p \in PagesOfCall \ ReturnedPages :
          p.width <= 300 /\ \A q \in ReturnedPages : Area(p) > Area(q)

\* C33: a double tap on a card whose page is liked leaves the page liked.
C33_DoubleTapNeverUnlikes ==
    [][lastOp'.op = "handleDoubleTap" /\ IsPageLiked(localStorage, lastOp'.pageId)
          => IsPageLiked(localStorage', lastOp'.pageId)]_vars

\* C35: loading is true in every state in which a fetchRandomWikiPages call
\* made by loadWikiPages is awaited.
C35_LoadingWhileAwaited ==
    requests # EmptyBag => loading

\* The loading flag is false, or the step that led here was the completion of
\* a load, whose finally block set it to false before the effects of that
\* commit ran.
LoadingCleared == ~loading \/ lastOp.op = "loadWikiPagesResume"

\* The feed and the retry timers have reached the sizes the model stops at,
\* so that no completion of a load is followed here.
Full == Len(wikiPages) >= MaxFeed /\ Len(timers) >= MaxTimers

\* C34: once loadWikiPages has set loading, a load completes and sets it back
\* to false, whatever the remote answers.
C34_LoadCompletes == loading ~> (LoadingCleared \/ Full)

\* C36: handleRemoveLike(pageId) makes every registered listener handle
\* exactly one likeStatusChanged event.
C36_OneBroadcastPerRemoval ==
    [][lastOp'.op = "handleRemoveLike" =>
          \A c \in listeners : Len(seen'[c]) = Len(seen[c]) + 1]_vars

\* The stored list holds no id twice.
NoDuplicates(arr) == \A i, j \in 1..Len(arr) : i # j => arr[i] # arr[j]

\* The step is a call of togglePageLike or of removeLike.
StorageCall == lastOp'.op \in {"handleDoubleTap", "handleLike", "handleRemoveLike"}

\* C37: togglePageLike(id) and removeLike(id) leave isPageLiked(j) as it was
\* for every other id j, isPageLiked(id) is false after removeLike(id), and
\* the stored list never holds an id twice.
C37_OnlyOwnMembership ==
    /\ []NoDuplicates(GetAllLikes(localStorage))
    /\ [][StorageCall =>
            /\ \A j \in PageIds \ {lastOp'.pageId} :
                  IsPageLiked(localStorage', j) <=> IsPageLiked(localStorage, j)
            /\ lastOp'.op = "handleRemoveLike" =>
                  ~IsPageLiked(localStorage', lastOp'.pageId)]_vars

\* Page 7 was removed from a list that held both ids, and 42 is still liked.
C37_Witness ==
    /\ lastOp.op = "handleRemoveLike"
    /\ lastOp.pageId = 7
    /\ ~IsPageLiked(localStorage, 7)
    /\ IsPageLiked(localStorage, 42)

====
